---- MODULE Spec2Model ----
(***************************************************************************)
(* Model of sisl.physics.bloch.Bloch (src/sisl/physics/bloch.py).          *)
(*                                                                         *)
(* Numbers.  k-point components are rationals; they are kept as integer    *)
(* numbers of 1/PhaseDen (twelfths), and the inputs are restricted to the  *)
(* k-points for which every division the code performs is exact in that    *)
(* unit.  exp(2*pi*i*n/12) is the n-th power of a primitive 12th root of   *)
(* unity z; sums of such numbers are elements of Z[z], written in the      *)
(* basis 1, z, z^2, z^3 (z^4 = z^2 - 1), over a common denominator.  All   *)
(* arithmetic is exact: floating-point rounding is not modelled.           *)
(***************************************************************************)
EXTENDS Integers, Sequences, FiniteSets, TLC

\* arg, bloch, pc, used, last, call: a Bloch object and the call in progress
\* heap: the array buffers of a caller of a Bloch object (specification SpecPure)
\* work: the accumulation loop of unfold split among workers (SpecBlocks)
\* sile: a TBtransSile object (SpecSile)
\* car:  a carSileVASP object and its file (SpecCar)
VARIABLES arg, bloch, pc, used, last, call, heap, work, sile, car

vars == <<arg, bloch, pc, used, last, call, heap, work, sile, car>>

\* the value of a variable that a specification does not use
Unused == <<>>

\* ------------------------------------------------------------ bounds
\* largest repetition passed to the constructor (components are MinB..MaxB)
MaxB == 2
\* largest unfold multiplicity N = Bi*Bj*Bk explored
MaxN == 8
\* largest side of a sample matrix
MaxM == 2
\* largest N explored for constructor arguments with a component below 1
MaxClampN == 2
\* largest N of the objects whose calls are repeated (SpecPure)
MaxPureN == 4
\* largest number of calls made on one object in SpecPure
MaxCalls == 3
\* largest N of the accumulations split among workers (SpecBlocks)
MaxParN == 4
\* largest number of workers an accumulation is split among
MaxWorkers == 2
\* largest _access a TBtransSile is constructed with (SpecSile)
MaxAccess == 2
\* depth of nested _data calls at which the interpreter gives up (RecursionError)
MaxDepth == 3
\* largest number of atoms of a geometry or a file (SpecCar)
MaxAtoms == 3

\* the decimals of '{:18.9f}'
Decimals == 9

\* smallest constructor component: 0 and -1 exercise the clamp of line 45
MinB == 0 - 1
\* denominator of the k-point unit and order of the root of unity
PhaseDen == 3 * 4

\* ------------------------------------------------------- exact numbers
Abs(x) == IF x < 0 THEN 0 - x ELSE x

RECURSIVE GCD(_, _)
GCD(a, b) == IF b = 0 THEN Abs(a) ELSE GCD(b, a % Abs(b))

\* an element (c1 + c2 z + c3 z^2 + c4 z^3) / d of Q(z)
Cx(c, d) == [c |-> c, d |-> d]

CZero == Cx(<<0, 0, 0, 0>>, 1)

\* the real number n / d
CReal(n, d) == Cx(<<n, 0, 0, 0>>, d)

\* lowest terms, so that equal numbers are equal values
CNorm(x) ==
    LET g == GCD(GCD(GCD(x.c[1], x.c[2]), GCD(x.c[3], x.c[4])), x.d)
    IN  Cx(<<x.c[1] \div g, x.c[2] \div g, x.c[3] \div g, x.c[4] \div g>>, x.d \div g)

\* numpy add of two complex numbers
CAdd(x, y) ==
    IF x.d = y.d
    THEN Cx(<<x.c[1] + y.c[1], x.c[2] + y.c[2], x.c[3] + y.c[3], x.c[4] + y.c[4]>>, x.d)
    ELSE Cx(<<x.c[1] * y.d + y.c[1] * x.d, x.c[2] * y.d + y.c[2] * x.d,
              x.c[3] * y.d + y.c[3] * x.d, x.c[4] * y.d + y.c[4] * x.d>>, x.d * y.d)

\* z^n for n in 0..5, in the basis 1, z, z^2, z^3
ZetaLow(n) ==
    CASE n = 0 -> <<1, 0, 0, 0>>
      [] n = 1 -> <<0, 1, 0, 0>>
      [] n = 2 -> <<0, 0, 1, 0>>
      [] n = 3 -> <<0, 0, 0, 1>>
      [] n = 4 -> <<0 - 1, 0, 1, 0>>
      [] n = 5 -> <<0, 0 - 1, 0, 1>>

\* numpy exp(2j * pi * n / PhaseDen): z^n, with z^6 = -1
Exp2jPi(n) ==
    LET e == n % PhaseDen
        h == PhaseDen \div 2
        z == ZetaLow(e % h)
    IN  IF e < h THEN z ELSE <<0 - z[1], 0 - z[2], 0 - z[3], 0 - z[4]>>

\* the product of the (real, rational) number x with the unit phase z^n
CMulExp(x, n) ==
    LET e == Exp2jPi(n)
    IN  Cx(<<x.c[1] * e[1], x.c[1] * e[2], x.c[1] * e[3], x.c[1] * e[4]>>, x.d)

\* ------------------------------------------------------------ Bloch
\* Clamp with the test "< 0": a zero component is kept
ClampNegative(b) == [i \in 1..3 |-> IF b[i] < 0 THEN 1 ELSE b[i]]

\* Clamp left out: the components are stored as given
ClampNone(b) == [i \in 1..3 |-> b[i]]

\* np.where(bloch < 1, 1, bloch) of __init__
Clamp(b) == [i \in 1..3 |-> IF b[i] < 1 THEN 1 ELSE b[i]]

\* np.prod(self.bloch) of __len__
BlochLen(B) == B[1] * B[2] * B[3]

\* UnfoldGrid without the division by the repetitions
UnfoldGridNoDiv(B, k) ==
    [g \in (0..(B[3] - 1)) \X (0..(B[2] - 1)) \X (0..(B[1] - 1)) |->
        << g[3] * PhaseDen + k[1], g[2] * PhaseDen + k[2], g[1] * PhaseDen + k[3] >>]

\* the 4-dimensional array of unfold_points before its shape is reset:
\* element [r, q, p, :] for the grid (B[3], B[2], B[1])
UnfoldGrid(B, k) ==
    [g \in (0..(B[3] - 1)) \X (0..(B[2] - 1)) \X (0..(B[1] - 1)) |->
        << (g[3] * PhaseDen + k[1]) \div B[1],
           (g[2] * PhaseDen + k[2]) \div B[2],
           (g[1] * PhaseDen + k[3]) \div B[3] >>]

\* the multi-index of flat position T in a C-ordered array of shape (n3, n2, n1)
Unravel3(T, n3, n2, n1) == << T \div (n2 * n1), (T \div n1) % n2, T % n1 >>

\* UnfoldPoints with the grid flattened in Fortran order: r fastest, p slowest
UnfoldPointsSwapped(B, k) ==
    [t \in 1..BlochLen(B) |->
        UnfoldGrid(B, k)[<< (t - 1) % B[3], ((t - 1) \div B[3]) % B[2],
                            (t - 1) \div (B[3] * B[2]) >>]]

\* unfold_points: the grid with shape (-1, 3), row T (0-based) at index T + 1
UnfoldPoints(B, k) ==
    [t \in 1..BlochLen(B) |-> UnfoldGrid(B, k)[Unravel3(t - 1, B[3], B[2], B[1])]]

\* the branch of unfold selected by the tests on Bi, Bj, Bk; each is named
\* by the axes it sums over
Branch(B) ==
    IF B[1] = 1
    THEN IF B[2] = 1 THEN "K"
         ELSE IF B[3] = 1 THEN "J" ELSE "JK"
    ELSE IF B[2] = 1
         THEN IF B[3] = 1 THEN "I" ELSE "IK"
         ELSE IF B[3] = 1 THEN "IJ" ELSE "IJK"

\* the destination blocks (k, j, i) in the order the loops of a branch visit
\* them: an axis the branch does not loop over stays at index 0
BlockSeq(br, B) ==
    LET nk == IF br \in {"K", "JK", "IK", "IJK"} THEN B[3] ELSE 1
        nj == IF br \in {"J", "JK", "IJ", "IJK"} THEN B[2] ELSE 1
        ni == IF br \in {"I", "IK", "IJ", "IJK"} THEN B[1] ELSE 1
    IN  [t \in 1..(nk * nj * ni) |-> Unravel3(t - 1, nk, nj, ni)]

\* Phase with the opposite sign convention: (k - K) for (K - k) on every axis
PhaseConj(br, kT, blk, src) ==
    LET dK == blk[1] - src[1]
        dJ == blk[2] - src[2]
        dI == blk[3] - src[3]
    IN  CASE br = "K"   -> kT[3] * dK
          [] br = "J"   -> kT[2] * dJ
          [] br = "JK"  -> dK * kT[3] + kT[2] * dJ
          [] br = "I"   -> kT[1] * dI
          [] br = "IK"  -> dK * kT[3] + kT[1] * dI
          [] br = "IJ"  -> dJ * kT[2] + kT[1] * dI
          [] br = "IJK" -> (dK * kT[3] + dJ * kT[2]) + kT[1] * dI

\* Phase with the source indices K, J, I counted from 1 (arange(1, B + 1))
PhaseOneBased(br, kT, blk, src) ==
    LET dK == src[1] + 1 - blk[1]
        dJ == src[2] + 1 - blk[2]
        dI == src[3] + 1 - blk[3]
    IN  CASE br = "K"   -> kT[3] * dK
          [] br = "J"   -> kT[2] * dJ
          [] br = "JK"  -> dK * kT[3] + kT[2] * dJ
          [] br = "I"   -> kT[1] * dI
          [] br = "IK"  -> dK * kT[3] + kT[1] * dI
          [] br = "IJ"  -> dJ * kT[2] + kT[1] * dI
          [] br = "IJK" -> (dK * kT[3] + dJ * kT[2]) + kT[1] * dI

\* Phase with a slip in one specialised branch: branch "IK" reads kpi[1]
\* where the code reads kpi[0]
PhaseSlip(br, kT, blk, src) ==
    CASE br = "K"   -> kT[3] * (src[1] - blk[1])
      [] br = "J"   -> kT[2] * (src[2] - blk[2])
      [] br = "JK"  -> (src[1] - blk[1]) * kT[3] + kT[2] * (src[2] - blk[2])
      [] br = "I"   -> kT[1] * (src[3] - blk[3])
      [] br = "IK"  -> (src[1] - blk[1]) * kT[3] + kT[2] * (src[3] - blk[3])
      [] br = "IJ"  -> (src[2] - blk[2]) * kT[2] + kT[1] * (src[3] - blk[3])
      [] br = "IJK" -> ((src[1] - blk[1]) * kT[3] + (src[2] - blk[2]) * kT[2])
                         + kT[1] * (src[3] - blk[3])

\* the argument of exp, in units of 2*pi*i/PhaseDen, for destination block
\* blk = (k, j, i) and source index src = (K, J, I); kT = k_unfold[T]
Phase(br, kT, blk, src) ==
    CASE br = "K"   -> kT[3] * (src[1] - blk[1])
      [] br = "J"   -> kT[2] * (src[2] - blk[2])
      [] br = "JK"  -> (src[1] - blk[1]) * kT[3] + kT[2] * (src[2] - blk[2])
      [] br = "I"   -> kT[1] * (src[3] - blk[3])
      [] br = "IK"  -> (src[1] - blk[1]) * kT[3] + kT[1] * (src[3] - blk[3])
      [] br = "IJ"  -> (src[2] - blk[2]) * kT[2] + kT[1] * (src[3] - blk[3])
      [] br = "IJK" -> ((src[1] - blk[1]) * kT[3] + (src[2] - blk[2]) * kT[2])
                         + kT[1] * (src[3] - blk[3])

\* the array of shape (Bk, Bj, Bi, M0, Bk, Bj, Bi, M1) is kept as its blocks
\* Mu[k, j, i], each of shape (M0, Bk, Bj, Bi, M1)
BlockIndex(B) == (0..(B[3] - 1)) \X (0..(B[2] - 1)) \X (0..(B[1] - 1))

InnerIndex(B, M0, M1) ==
    (0..(M0 - 1)) \X (0..(B[3] - 1)) \X (0..(B[2] - 1)) \X (0..(B[1] - 1)) \X (0..(M1 - 1))

\* zeros(shape)
MuZeros(B, M0, M1) == [blk \in BlockIndex(B) |-> [y \in InnerIndex(B, M0, M1) |-> CZero]]

\* M[T].reshape(Mshape) * w: element [a, 0, 0, 0, b] is flat element a*M1 + b
Weighted(mat, N) == [i \in 1..Len(mat.data) |-> CReal(mat.data[i], N)]

\* add(Mu[k, j, i], m * exp(...), out=Mu[k, j, i]) for one block: element
\* [a, K, J, I, b] of the block receives m[a, b] * exp(phase at (K, J, I))
AddBlock(Mu, br, kT, blk, m, M1) ==
    [Mu EXCEPT ![blk] =
        [y \in DOMAIN @ |->
            CAdd(@[y], CMulExp(m[y[1] * M1 + y[5] + 1],
                               Phase(br, kT, blk, <<y[2], y[3], y[4]>>)))]]

\* the loops over the destination blocks, for one T
RECURSIVE BlockLoop(_, _, _, _, _, _, _)
BlockLoop(Mu, br, kT, blocks, n, m, M1) ==
    IF n > Len(blocks) \/ DOMAIN Mu = {} THEN Mu
    ELSE BlockLoop(AddBlock(Mu, br, kT, blocks[n], m, M1), br, kT, blocks, n + 1, m, M1)

UnfoldError(what, T) == [status |-> what, shape |-> <<>>, data |-> <<>>, done |-> T]

\* the multi-index of flat position f in the C-ordered 8-dimensional array
Unravel8(f, B, M0, M1) ==
    LET N == BlochLen(B)
        row == f \div (N * M1)
        col == f % (N * M1)
        rb == Unravel3(row \div M0, B[3], B[2], B[1])
        cb == Unravel3(col \div M1, B[3], B[2], B[1])
    IN  <<rb[1], rb[2], rb[3], row % M0, cb[1], cb[2], cb[3], col % M1>>

\* Reshape2D to the shape the docstring names, M[0].shape * N ** 2
Reshape2DDoc(Mu, B, M0, M1) ==
    LET N == BlochLen(B)
    IN  [status |-> "ok",
         shape |-> <<N * N * M0, M1>>,
         data |-> [rc \in (0..(N * N * M0 - 1)) \X (0..(M1 - 1)) |->
                     LET x == Unravel8(rc[1] * M1 + rc[2], B, M0, M1)
                     IN  CNorm(Mu[<<x[1], x[2], x[3]>>][<<x[4], x[5], x[6], x[7], x[8]>>])],
         done |-> N]

\* Mu.reshape(N * M0, N * M1)
Reshape2D(Mu, B, M0, M1) ==
    LET N == BlochLen(B)
    IN  [status |-> "ok",
         shape |-> <<N * M0, N * M1>>,
         data |-> [rc \in (0..(N * M0 - 1)) \X (0..(N * M1 - 1)) |->
                     LET x == Unravel8(rc[1] * (N * M1) + rc[2], B, M0, M1)
                     IN  CNorm(Mu[<<x[1], x[2], x[3]>>][<<x[4], x[5], x[6], x[7], x[8]>>])],
         done |-> N]

\* for T in range(N): ...; return Mu.reshape(...)
RECURSIVE TLoop(_, _, _, _, _, _, _, _)
TLoop(Mu, br, B, M, k_unfold, T, M0, M1) ==
    LET N == BlochLen(B)
    IN  IF T >= N THEN Reshape2D(Mu, B, M0, M1)
        ELSE IF T >= Len(M) THEN UnfoldError("IndexError", T)
        ELSE IF Len(M[T + 1].data) # M0 * M1 THEN UnfoldError("ValueError", T)
        ELSE IF T >= Len(k_unfold) THEN UnfoldError("IndexError", T)
        ELSE TLoop(BlockLoop(Mu, br, k_unfold[T + 1], BlockSeq(br, B), 1,
                             Weighted(M[T + 1], N), M1),
                   br, B, M, k_unfold, T + 1, M0, M1)

\* the body of unfold with the loops of branch br
UnfoldWith(br, B, M, k_unfold) ==
    IF Len(M) = 0 THEN UnfoldError("IndexError", 0)
    ELSE LET M0 == M[1].shape[1]
             M1 == M[1].shape[2]
         IN  TLoop(MuZeros(B, M0, M1), br, B, M, k_unfold, 0, M0, M1)

\* Bloch.unfold(M, k_unfold) for repetition B
Unfold(B, M, k_unfold) == UnfoldWith(Branch(B), B, M, k_unfold)

\* ------------------------------------------------------------ inputs
KVals == {0, 6}

\* the base k-points whose unfold points are whole numbers of 1/PhaseDen
BaseK(B) ==
    {k \in KVals \X KVals \X KVals :
        \A i \in 1..3 : PhaseDen % B[i] = 0 /\ k[i] % B[i] = 0}

\* the constructor arguments: every positive triple with N <= MaxN, and the
\* triples with a component below 1 with N <= MaxClampN
BlochArgs ==
    {b \in (MinB..MaxB) \X (MinB..MaxB) \X (MinB..MaxB) :
        LET n == (IF b[1] < 1 THEN 1 ELSE b[1]) * (IF b[2] < 1 THEN 1 ELSE b[2])
                   * (IF b[3] < 1 THEN 1 ELSE b[3])
        IN  n <= (IF \E i \in 1..3 : b[i] < 1 THEN MaxClampN ELSE MaxN)}

\* sample matrices: entry i (1-based, row-major) of the matrix for point T
\* ("eye" is the identity when the matrix is square)
Entry(kind, T, i, size) ==
    CASE kind = "ones" -> 1
      [] kind = "same" -> i
      [] kind = "ramp" -> T * size + i
      [] kind = "eye"  -> IF \E m \in 1..size : m * m = size /\ (i - 1) % (m + 1) = 0
                          THEN 1 ELSE 0

Kinds == {"ones", "same", "ramp", "eye"}

Mat(kind, T, r, c) ==
    [shape |-> <<r, c>>, data |-> [i \in 1..(r * c) |-> Entry(kind, T, i, r * c)]]

\* a list of n matrices of shape (r, c); odd = "reshaped" gives the last one the
\* shape (r*c, 1) with the same entries, odd = "resized" the shape (r + 1, c)
MatList(d) ==
    [t \in 1..d.n |->
        IF t = d.n /\ d.odd = "reshaped"
        THEN [shape |-> <<d.r * d.c, 1>>, data |-> Mat(d.kind, t - 1, d.r, d.c).data]
        ELSE IF t = d.n /\ d.odd = "resized"
        THEN Mat(d.kind, t - 1, d.r + 1, d.c)
        ELSE Mat(d.kind, t - 1, d.r, d.c)]

Desc(n, r, c, kind, odd) == [n |-> n, r |-> r, c |-> c, kind |-> kind, odd |-> odd]

\* k-points that are not produced by unfold_points
Skew(N, s) ==
    [t \in 1..N |-> << (s + t - 1) % PhaseDen, (2 * s + 3 * (t - 1) + 1) % PhaseDen,
                       (5 * (t - 1) + s * s + 2) % PhaseDen >>]

\* the base k-points used where a matrix is unfolded
ProbeK(B) == BaseK(B) \cap {<<0, 0, 0>>, <<6, 0, 6>>, <<0, 6, 0>>}

KUnfolds(B) ==
    {UnfoldPoints(B, k) : k \in ProbeK(B)} \cup {Skew(BlochLen(B), s) : s \in 0..1}

\* the descriptions of the lists of N square matrices of one shape
GoodDescs(B) == {Desc(BlochLen(B), m, m, kind, "none") : m \in 1..MaxM, kind \in Kinds}

\* the descriptions of the lists unfold is not meant for: a length other than
\* N, matrices that are not square, a last matrix of another shape
BadDescs(B) ==
    LET N == BlochLen(B)
    IN  {Desc(n, m, m, "ramp", "none") : n \in {N - 1, N + 1}, m \in 1..MaxM}
        \cup {Desc(N, rc[1], rc[2], "ramp", "none") :
                rc \in {x \in (1..MaxM) \X (1..MaxM) : x[1] # x[2]}}
        \cup {Desc(N, m, m, "ramp", odd) :
                m \in {x \in 1..MaxM : N >= 2}, odd \in {"reshaped", "resized"}}

\* the arguments (M, k_unfold) of unfold
UnfoldInputs(B) ==
    {[M |-> MatList(d), k_unfold |-> ku] : d \in GoodDescs(B), ku \in KUnfolds(B)}
    \cup {[M |-> MatList(d), k_unfold |-> Skew(BlochLen(B), 1)] : d \in BadDescs(B)}

\* the functions handed to __call__: each returns a matrix for k-point K and
\* the extra argument passed through
Funcs == {"const", "kdep"}

Extras == {0, 1}

FuncVal(f, extra, K) ==
    IF f = "const"
    THEN [shape |-> <<2, 2>>, data |-> <<1 + extra, 2, 3, 4>>]
    ELSE [shape |-> <<1, 1>>, data |-> <<K[1] + 2 * K[2] + 3 * K[3] + extra>>]

NoCall == [func |-> "none", extra |-> 0, k |-> <<>>, K_unfold |-> <<>>,
           calls |-> <<>>, M |-> <<>>]

NoResult == [op |-> "none", in |-> <<>>, out |-> <<>>]

\* ------------------------------------------------------------ actions
\* Bloch.__init__
Init ==
    /\ arg \in BlochArgs
    /\ bloch = Clamp(arg)
    /\ pc = "idle"
    /\ used = FALSE
    /\ last = NoResult
    /\ call = NoCall
    /\ heap = Unused
    /\ work = Unused
    /\ sile = Unused
    /\ car = Unused

\* Bloch.__len__
DoLen ==
    /\ pc = "idle"
    /\ last' = [op |-> "len", in |-> <<>>, out |-> BlochLen(bloch)]
    /\ pc' = "returned"
    /\ UNCHANGED <<heap, work, sile, car, arg, bloch, used, call>>

\* Bloch.__str__
DoStr ==
    /\ pc = "idle"
    /\ last' = [op |-> "str", in |-> <<>>,
                out |-> <<"Bloch", bloch[1], bloch[2], bloch[3]>>]
    /\ pc' = "returned"
    /\ UNCHANGED <<heap, work, sile, car, arg, bloch, used, call>>

\* Bloch.bloch
DoBloch ==
    /\ pc = "idle"
    /\ last' = [op |-> "bloch", in |-> <<>>, out |-> bloch]
    /\ pc' = "returned"
    /\ UNCHANGED <<heap, work, sile, car, arg, bloch, used, call>>

\* Bloch.unfold_points(k)
DoUnfoldPoints ==
    /\ pc = "idle"
    /\ \E k \in BaseK(bloch) :
         last' = [op |-> "unfold_points", in |-> k, out |-> UnfoldPoints(bloch, k)]
    /\ pc' = "returned"
    /\ UNCHANGED <<heap, work, sile, car, arg, bloch, used, call>>

\* Bloch.unfold(M, k_unfold)
DoUnfold ==
    /\ pc = "idle"
    /\ \E in \in UnfoldInputs(bloch) :
         last' = [op |-> "unfold", in |-> in, out |-> Unfold(bloch, in.M, in.k_unfold)]
    /\ pc' = "returned"
    /\ UNCHANGED <<heap, work, sile, car, arg, bloch, used, call>>

\* __call__, line 122: K_unfold = self.unfold_points(k)
DoCallBegin ==
    /\ pc = "idle"
    /\ \E f \in Funcs, e \in Extras, k \in ProbeK(bloch) :
         call' = [func |-> f, extra |-> e, k |-> k,
                  K_unfold |-> UnfoldPoints(bloch, k), calls |-> <<>>, M |-> <<>>]
    /\ pc' = "calling"
    /\ UNCHANGED <<heap, work, sile, car, arg, bloch, used, last>>

\* NextPoint walking K_unfold from its last row to its first
NextPointReversed(c) == c.K_unfold[Len(c.K_unfold) - Len(c.M)]

\* the k-point the list comprehension of line 123 hands to func next
NextPoint(c) == c.K_unfold[Len(c.M) + 1]

\* __call__, line 123: one func(*args, k=K, **kwargs) of the list comprehension
DoCallFunc ==
    /\ pc = "calling"
    /\ Len(call.M) < Len(call.K_unfold)
    /\ call' = [call EXCEPT
                  !.calls = Append(@, <<call.extra, NextPoint(call)>>),
                  !.M = Append(@, FuncVal(call.func, call.extra, NextPoint(call)))]
    /\ UNCHANGED <<heap, work, sile, car, arg, bloch, pc, used, last>>

\* __call__, line 123: self.unfold(the list, K_unfold), once the list is built
DoCallUnfold ==
    /\ pc = "calling"
    /\ Len(call.M) = Len(call.K_unfold)
    /\ last' = [op |-> "call",
                in |-> [func |-> call.func, extra |-> call.extra, k |-> call.k],
                out |-> Unfold(bloch, call.M, call.K_unfold)]
    /\ pc' = "returned"
    /\ UNCHANGED <<heap, work, sile, car, arg, bloch, used, call>>

\* the caller takes the returned value; the object is ready for the next call
Return ==
    /\ pc = "returned"
    /\ pc' = "idle"
    /\ used' = TRUE
    /\ last' = NoResult
    /\ call' = NoCall
    /\ UNCHANGED <<heap, work, sile, car, arg, bloch>>

Next ==
    \/ DoLen
    \/ DoStr
    \/ DoBloch
    \/ DoUnfoldPoints
    \/ DoUnfold
    \/ DoCallBegin
    \/ DoCallFunc
    \/ DoCallUnfold
    \/ Return

Spec == Init /\ [][Next]_vars

\* ------------------------------------------ the caller's array buffers
\* A buffer is named <<"k", 0>>, <<"M", t>>, <<"k_unfold", 0>> (the arrays the
\* caller passes), <<"tmp", t>> (a temporary of the call, dropped at return) or
\* <<"new", n>> (the n-th array handed back to the caller).

\* zeros(...) / emptyd(...): a buffer no one else holds
NewBuffer(h) == <<"new", Len(h.rets) + 1>>

\* `m *= w` on the view M[T].reshape(Mshape): the product lands in M[T]
ProductBufferInPlace(operand, temp) == operand

\* M[T].reshape(Mshape) * w: reshape gives a view of the operand's buffer, the
\* binary product is written to a new temporary
ProductBuffer(operand, temp) == temp

\* the writes of unfold_points(k), in order: the new array `unfold` only
\* (k is copied by arrayd and read)
PointsWrites(B, h) ==
    << [buf |-> <<"tmp", 0>>, val |-> h.k],
       [buf |-> NewBuffer(h), val |-> UnfoldPoints(B, h.k)] >>

\* the writes of unfold(M, k_unfold), in order: one product per T, then Mu,
\* whose buffer the returned reshape shares
UnfoldWrites(B, h) ==
    [t \in 1..Len(h.M) |->
        [buf |-> ProductBuffer(<<"M", t>>, <<"tmp", t>>),
         val |-> Weighted(h.M[t], BlochLen(B))]]
    \o << [buf |-> NewBuffer(h), val |-> Unfold(B, h.M, h.k_unfold)] >>

\* one write applied to the caller's buffers; `written` records the argument
\* buffers that were written to
Store(h, op, w) ==
    CASE w.buf[1] = "k"        -> [h EXCEPT !.k = w.val, !.written = @ \cup {w.buf}]
      [] w.buf[1] = "k_unfold" -> [h EXCEPT !.k_unfold = w.val, !.written = @ \cup {w.buf}]
      [] w.buf[1] = "M"        -> [h EXCEPT !.M[w.buf[2]].data = w.val,
                                            !.written = @ \cup {w.buf}]
      [] w.buf[1] = "tmp"      -> h
      [] w.buf[1] = "new"      ->
            [h EXCEPT !.rets = Append(@, [op |-> op, buf |-> w.buf, val |-> w.val])]

RECURSIVE StoreAll(_, _, _)
StoreAll(h, op, ws) ==
    IF ws = <<>> THEN h ELSE StoreAll(Store(h, op, Head(ws)), op, Tail(ws))

\* the objects whose calls are repeated, and the arrays their caller holds
PureArgs == {b \in BlochArgs : (\A i \in 1..3 : b[i] >= 1) /\ BlochLen(b) <= MaxPureN}

PureHeap(k, M, ku) ==
    [k |-> k, M |-> M, k_unfold |-> ku, rets |-> <<>>, written |-> {},
     given |-> [k |-> k, M |-> M, k_unfold |-> ku]]

PureHeaps(B) ==
    UNION {{PureHeap(k, MatList(Desc(BlochLen(B), m, m, "ramp", "none")), ku) :
                m \in 1..MaxM, ku \in {UnfoldPoints(B, k), Skew(BlochLen(B), 1)}} :
           k \in ProbeK(B)}

PureInit ==
    /\ arg \in PureArgs
    /\ bloch = Clamp(arg)
    /\ pc = "idle"
    /\ used = FALSE
    /\ last = NoResult
    /\ call = NoCall
    /\ heap \in PureHeaps(Clamp(arg))
    /\ work = Unused
    /\ sile = Unused
    /\ car = Unused

\* unfold_points called on the caller's k
PureUnfoldPoints ==
    /\ Len(heap.rets) < MaxCalls
    /\ heap' = StoreAll(heap, "unfold_points", PointsWrites(bloch, heap))
    /\ UNCHANGED <<work, sile, car, arg, bloch, pc, used, last, call>>

\* unfold called on the caller's M and k_unfold
PureUnfold ==
    /\ Len(heap.rets) < MaxCalls
    /\ heap' = StoreAll(heap, "unfold", UnfoldWrites(bloch, heap))
    /\ UNCHANGED <<work, sile, car, arg, bloch, pc, used, last, call>>

\* len(obj): a call made in between, returning an int
PureLen ==
    /\ Len(heap.rets) < MaxCalls
    /\ heap' = [heap EXCEPT !.rets =
                    Append(@, [op |-> "len", buf |-> <<"int", 0>>, val |-> BlochLen(bloch)])]
    /\ UNCHANGED <<work, sile, car, arg, bloch, pc, used, last, call>>

PureNext ==
    \/ PureUnfoldPoints
    \/ PureUnfold
    \/ PureLen

SpecPure == PureInit /\ [][PureNext]_vars

\* ------------------------------ the accumulation split among workers
\* The iterations (T, k, j, i) of the loops of unfold, in the order of the
\* sequential loop: T outermost, then the blocks in the order of the branch.
Iterations(br, B) ==
    LET blocks == BlockSeq(br, B)
        nb == Len(blocks)
    IN  [x \in 1..(BlochLen(B) * nb) |->
            [T |-> (x - 1) \div nb, n |-> ((x - 1) % nb) + 1,
             blk |-> blocks[((x - 1) % nb) + 1]]]

\* a split by sample point T instead of by destination block
OwnerByPoint(it, W) == (it.T % W) + 1

\* the worker (1..W) an iteration is given to: by its destination block
Owner(it, W) == ((it.n - 1) % W) + 1

\* the iterations of worker w, in loop order
IterationsOf(w, W, br, B) ==
    LET all == Iterations(br, B)
        RECURSIVE Pick(_)
        Pick(x) == IF x > Len(all) THEN <<>>
                   ELSE (IF Owner(all[x], W) = w THEN <<all[x]>> ELSE <<>>) \o Pick(x + 1)
    IN  Pick(1)

\* worker w has finished its iterations
WorkerDone(w) ==
    work.pos[w] > Len(IterationsOf(w, work.W, Branch(bloch), bloch))

BlocksArgs == {b \in BlochArgs : (\A i \in 1..3 : b[i] >= 1) /\ BlochLen(b) \in 2..MaxParN}

BlocksInit ==
    /\ arg \in BlocksArgs
    /\ bloch = Clamp(arg)
    /\ pc = "idle"
    /\ used = FALSE
    /\ last = NoResult
    /\ call = NoCall
    /\ heap = Unused
    /\ work \in {[W |-> W,
                  M |-> MatList(Desc(BlochLen(Clamp(arg)), m, m, "ramp", "none")),
                  k_unfold |-> ku,
                  Mu |-> MuZeros(Clamp(arg), m, m),
                  pos |-> [w \in 1..W |-> 1],
                  tmp |-> [w \in 1..W |-> <<>>],
                  writers |-> [blk \in BlockIndex(Clamp(arg)) |-> {}]] :
                    W \in 1..MaxWorkers, m \in 1..MaxM,
                    ku \in {UnfoldPoints(Clamp(arg), <<0, 0, 0>>),
                            Skew(BlochLen(Clamp(arg)), 1)}}
    /\ sile = Unused
    /\ car = Unused

\* worker w evaluates add(Mu[k, j, i], m * exp(...)) for its next iteration:
\* it reads the block and holds the sum
BlockLoad ==
    \E w \in 1..work.W :
        /\ ~WorkerDone(w)
        /\ work.tmp[w] = <<>>
        /\ LET it == IterationsOf(w, work.W, Branch(bloch), bloch)[work.pos[w]]
               m == Weighted(work.M[it.T + 1], BlochLen(bloch))
               M1 == work.M[1].shape[2]
           IN  work' = [work EXCEPT !.tmp[w] =
                           AddBlock(work.Mu, Branch(bloch), work.k_unfold[it.T + 1],
                                    it.blk, m, M1)[it.blk]]
        /\ UNCHANGED <<heap, sile, car, arg, bloch, pc, used, last, call>>

\* out=Mu[k, j, i]: worker w writes the sum it holds to the block
BlockStore ==
    \E w \in 1..work.W :
        /\ ~WorkerDone(w)
        /\ work.tmp[w] # <<>>
        /\ LET it == IterationsOf(w, work.W, Branch(bloch), bloch)[work.pos[w]]
           IN  work' = [work EXCEPT !.Mu[it.blk] = work.tmp[w],
                                    !.tmp[w] = <<>>,
                                    !.pos[w] = @ + 1,
                                    !.writers[it.blk] = @ \cup {w}]
        /\ UNCHANGED <<heap, sile, car, arg, bloch, pc, used, last, call>>

BlocksNext ==
    \/ BlockLoad
    \/ BlockStore

SpecBlocks == BlocksInit /\ [][BlocksNext]_vars

\* ---------------------------------------------------------- TBtransSile
\* (src/sids/io/tbtrans.py)  The object is a record: access is _access,
\* hasdata / data the private dict __data (absent until _setup creates it),
\* file the NetCDF variables, and var what the free name `var` of _get_var
\* is bound to in the module ("undefined" when no global of that name
\* exists, else the name of a variable of the file).
SileNames == <<"cell", "xa", "lasto", "a_dev", "pivot", "kpt", "wkpt", "E">>

SileNameSet == {SileNames[i] : i \in 1..Len(SileNames)}

Ok(v) == [status |-> "ok", val |-> v]

Raised(what) == [status |-> what, val |-> <<>>]

\* _get_var(name) with tree = None: return g.variables[var]
GetVar(s, name) ==
    IF s.var = "undefined" THEN Raised("NameError") ELSE Ok(s.file[s.var])

\* _data(name) with avg = False; depth counts the nested calls through the
\* property wkpt (wkpt = self.wkpt, which is self._data('wkpt'))
RECURSIVE DataOf(_, _, _)
DataOf(s, name, depth) ==
    IF s.access > 0
    THEN IF ~s.hasdata THEN Raised("AttributeError")
         ELSE IF name \notin DOMAIN s.data THEN Raised("KeyError")
         ELSE Ok(s.data[name])
    ELSE LET v == GetVar(s, name)
         IN  IF v.status # "ok" THEN v
             ELSE IF depth >= MaxDepth THEN Raised("RecursionError")
             ELSE LET wkpt == DataOf(s, "wkpt", depth + 1)
                  IN  IF wkpt.status # "ok" THEN wkpt ELSE Ok(v.val)

\* the properties cell, xa (value / Bohr) and lasto
Property(s, name) ==
    LET d == DataOf(s, name, 0)
    IN  IF d.status # "ok" \/ name = "lasto" THEN d
        ELSE Ok([value |-> d.val, per |-> "Bohr"])

\* read_geom(); `with self` opens the file for the length of the call
ReadGeom(s) ==
    IF s.access > 0 THEN DataOf(s, "_geom", 0)
    ELSE LET cell == Property(s, "cell")
             xa == Property(s, "xa")
             lasto == Property(s, "lasto")
         IN  IF cell.status # "ok" THEN cell
             ELSE IF xa.status # "ok" THEN xa
             ELSE IF lasto.status # "ok" THEN lasto
             ELSE Ok([xyz |-> xa.val, lasto |-> lasto.val, sc |-> cell.val])

\* the loop of _setup from its i-th name on; s has _access = 0; an exception
\* leaves the object as it is at the raise
RECURSIVE SetupLoop(_, _, _)
SetupLoop(s, i, access) ==
    IF i > Len(SileNames)
    THEN LET t == [s EXCEPT !.access = access]
             g == ReadGeom(t)
         IN  IF g.status # "ok" THEN [obj |-> t, status |-> g.status]
             ELSE [obj |-> [t EXCEPT !.data = ("_geom" :> g.val) @@ @], status |-> "ok"]
    ELSE LET d == DataOf(s, SileNames[i], 0)
         IN  IF d.status # "ok" THEN [obj |-> s, status |-> d.status]
             ELSE SetupLoop([s EXCEPT !.data = (SileNames[i] :> d.val) @@ @], i + 1, access)

\* _setup()
Setup(s) ==
    IF s.access > 0
    THEN SetupLoop([s EXCEPT !.hasdata = TRUE, !.data = <<>>, !.access = 0], 1, s.access)
    ELSE [obj |-> s, status |-> "ok"]

FileSeeds == {"a", "b"}

NoSileCall == [op |-> "none", name |-> "", access |-> 0, status |-> "", out |-> <<>>]

SileInit ==
    /\ arg = Unused
    /\ bloch = Unused
    /\ pc = "idle"
    /\ used = FALSE
    /\ last = NoResult
    /\ call = NoCall
    /\ heap = Unused
    /\ work = Unused
    /\ sile \in {[access |-> a, var |-> v, hasdata |-> FALSE, data |-> <<>>,
                  file |-> [n \in SileNameSet |-> <<n, seed>>], last |-> NoSileCall] :
                    a \in 0..MaxAccess, v \in {"undefined", "cell", "wkpt"},
                    seed \in FileSeeds}
    /\ car = Unused

\* obj._setup()
DoSetup ==
    /\ LET r == Setup(sile)
       IN  sile' = [r.obj EXCEPT !.last = [op |-> "_setup", name |-> "", access |-> sile.access,
                                           status |-> r.status, out |-> <<>>]]
    /\ UNCHANGED <<heap, work, car, arg, bloch, pc, used, last, call>>

\* obj.read_geom()
DoReadGeom ==
    /\ LET r == ReadGeom(sile)
       IN  sile' = [sile EXCEPT !.last = [op |-> "read_geom", name |-> "", access |-> sile.access,
                                          status |-> r.status, out |-> r.val]]
    /\ UNCHANGED <<heap, work, car, arg, bloch, pc, used, last, call>>

\* obj._data(name)
DoData ==
    /\ \E name \in SileNameSet \cup {"_geom"} :
         LET r == DataOf(sile, name, 0)
         IN  sile' = [sile EXCEPT !.last = [op |-> "_data", name |-> name, access |-> sile.access,
                                            status |-> r.status, out |-> r.val]]
    /\ UNCHANGED <<heap, work, car, arg, bloch, pc, used, last, call>>

SileNext ==
    \/ DoSetup
    \/ DoReadGeom
    \/ DoData

SpecSile == SileInit /\ [][SileNext]_vars

\* ---------------------------------------------------------- carSileVASP
\* (src/sisl/io/vasp/car.py)  Numbers are exact rationals n/d in lowest
\* terms; the explored values are below 2 in magnitude, which keeps every
\* intermediate integer within 32 bits and every number within the 18
\* characters of its field.
Q(n, d) == LET g == GCD(n, d) IN [n |-> n \div g, d |-> d \div g]

QMul(x, y) == Q(x.n * y.n, x.d * y.d)

QAdd(x, y) == Q(x.n * y.d + y.n * x.d, x.d * y.d)

RECURSIVE Pow10(_)
Pow10(e) == IF e = 0 THEN 1 ELSE 10 * Pow10(e - 1)

\* x * 10^Decimals rounded to the nearest integer (half to even), computed
\* from quotient and remainder of 10^Decimals by the denominator
Scaled9(x) ==
    LET G == Pow10(Decimals)
        a == Abs(x.n)
        whole == a * (G \div x.d) + (a * (G % x.d)) \div x.d
        rem == (a * (G % x.d)) % x.d
        up == IF 2 * rem > x.d \/ (2 * rem = x.d /\ whole % 2 = 1) THEN 1 ELSE 0
    IN  (IF x.n < 0 THEN 0 - 1 ELSE 1) * (whole + up)

\* the number a field '{:18.9f}'.format(x) denotes
Format9(x) == Q(Scaled9(x), Pow10(Decimals))

\* a whitespace-separated token: a word, an integer literal or a decimal literal
Word(w) == [kind |-> "word", w |-> w, v |-> Q(0, 1)]

IntTok(i) == [kind |-> "int", w |-> "", v |-> Q(i, 1)]

FloatTok(x) == [kind |-> "float", w |-> "", v |-> x]

\* a line of the file: its first character and its tokens
Line(first, tokens) == [first |-> first, tokens |-> tokens]

\* what readline() returns at the end of the file: ''
EndOfFile == Line("", <<>>)

\* PeriodicTable().Z_label(Z) and, for Atom[label], its inverse
ZLabel == (1 :> "H") @@ (2 :> "He") @@ (6 :> "C")

LabelZ(w) == CHOOSE Z \in DOMAIN ZLabel : ZLabel[Z] = w

\* 3 fields '{:18.9f}' after an indent
RowLine(row) == Line(" ", <<FloatTok(Format9(row[1])), FloatTok(Format9(row[2])),
                           FloatTok(Format9(row[3]))>>)

\* the loop over geom.iter_species(): the labels s and the counts d after the
\* atoms from ia on; an atom yields its index into the species of the geometry
RECURSIVE CountSpecies(_, _, _, _)
CountSpecies(geom, ia, s, d) ==
    IF ia > Len(geom.specie) THEN [status |-> "ok", s |-> s, d |-> d]
    ELSE LET idx == geom.specie[ia]
             s1 == IF idx >= Len(d) THEN Append(s, ZLabel[geom.Z[idx + 1]]) ELSE s
             d1 == IF idx >= Len(d) THEN Append(d, 0) ELSE d
         IN  IF idx >= Len(d1) THEN [status |-> "IndexError", s |-> s1, d |-> d1]
             ELSE CountSpecies(geom, ia + 1, s1, [d1 EXCEPT ![idx + 1] = @ + 1])

\* write_geometry(geom): the lines of the file, or the exception raised
WriteGeometry(geom) ==
    LET sd == CountSpecies(geom, 1, <<>>, <<>>)
    IN  IF sd.status # "ok"
        THEN [status |-> sd.status,
              file |-> << Line("s", <<Word("sisl"), Word("output")>>),
                          Line(" ", <<FloatTok(Q(1, 1))>>),
                          RowLine(geom.cell[1]), RowLine(geom.cell[2]), RowLine(geom.cell[3]) >>]
        ELSE [status |-> "ok",
              file |->
                << Line("s", <<Word("sisl"), Word("output")>>),
                   Line(" ", <<FloatTok(Q(1, 1))>>),
                   RowLine(geom.cell[1]), RowLine(geom.cell[2]), RowLine(geom.cell[3]),
                   Line(" ", [i \in 1..Len(sd.s) |-> Word(sd.s[i])]),
                   Line(" ", [i \in 1..Len(sd.d) |-> IntTok(sd.d[i])]),
                   Line("C", <<Word("Cartesian")>>) >>
                \o [ia \in 1..Len(geom.xyz) |-> RowLine(geom.xyz[ia])]]

\* readline(): line number pos (from 1) of the file
ReadLine(file, pos) == IF pos > Len(file) THEN EndOfFile ELSE file[pos]

Numeric(tokens) == \A i \in 1..Len(tokens) : tokens[i].kind \in {"int", "float"}

\* row[:] = list(map(float, tokens)) for a row of 3: a single value is
\* broadcast, any other number of values than 3 does not fit
Row3(tokens) ==
    IF ~Numeric(tokens) THEN Raised("ValueError")
    ELSE IF Len(tokens) = 3 THEN Ok(<<tokens[1].v, tokens[2].v, tokens[3].v>>)
    ELSE IF Len(tokens) = 1 THEN Ok(<<tokens[1].v, tokens[1].v, tokens[1].v>>)
    ELSE Raised("ValueError")

\* np.array(tokens, np.int32)
Int32Array(tokens) ==
    IF \A i \in 1..Len(tokens) : tokens[i].kind = "int"
    THEN Ok([i \in 1..Len(tokens) |-> tokens[i].v.n])
    ELSE Raised("ValueError")

First3(tokens) == SubSeq(tokens, 1, IF Len(tokens) < 3 THEN Len(tokens) ELSE 3)

\* read_supercell(): lines 1..5; scale is the new self._scale
ReadSupercell(file, scale0) ==
    LET sl == ReadLine(file, 2).tokens
        r1 == Row3(First3(ReadLine(file, 3).tokens))
        r2 == Row3(First3(ReadLine(file, 4).tokens))
        r3 == Row3(First3(ReadLine(file, 5).tokens))
    IN  IF Len(sl) # 1 \/ ~Numeric(sl)
        THEN [status |-> "ValueError", scale |-> scale0, cell |-> <<>>]
        ELSE IF r1.status # "ok" \/ r2.status # "ok" \/ r3.status # "ok"
        THEN [status |-> "ValueError", scale |-> sl[1].v, cell |-> <<>>]
        ELSE [status |-> "ok", scale |-> sl[1].v,
              cell |-> [i \in 1..3 |->
                          LET r == <<r1.val, r2.val, r3.val>>[i]
                          IN  <<QMul(r[1], sl[1].v), QMul(r[2], sl[1].v),
                                QMul(r[3], sl[1].v)>>]]

\* [Atom[spec] for spec, nsp in zip(species, species_count) for i in range(nsp)]
\* as atomic numbers; 0 stands for a key Atom does not know
RECURSIVE AtomList(_, _, _)
AtomList(species, count, i) ==
    IF i > Len(species) \/ i > Len(count) THEN <<>>
    ELSE [x \in 1..(IF count[i] < 0 THEN 0 ELSE count[i]) |-> species[i]]
           \o AtomList(species, count, i + 1)

\* Atom[label] for the tokens of the label line
LabelSpecies(tokens) ==
    [i \in 1..Len(tokens) |->
        IF tokens[i].kind = "word" /\ \E Z \in DOMAIN ZLabel : ZLabel[Z] = tokens[i].w
        THEN LabelZ(tokens[i].w) ELSE 0]

\* the coordinate lines pos .. pos + na - 1
RECURSIVE ReadRows(_, _, _)
ReadRows(file, pos, na) ==
    IF na = 0 THEN Ok(<<>>)
    ELSE LET row == Row3(ReadLine(file, pos).tokens)
             rest == ReadRows(file, pos + 1, na - 1)
         IN  IF row.status # "ok" THEN row
             ELSE IF rest.status # "ok" THEN rest
             ELSE Ok(<<row.val>> \o rest.val)

\* np.dot(xyz, cell.T)[ia]: component j is the sum over i of x[i] * cell[j][i]
DotCellT(x, cell) ==
    [j \in 1..3 |-> QAdd(QAdd(QMul(x[1], cell[j][1]), QMul(x[2], cell[j][2])),
                         QMul(x[3], cell[j][3]))]

CarError(what, scale) ==
    [status |-> what, scale |-> scale, atom |-> <<>>, xyz |-> <<>>, cell |-> <<>>,
     warned |-> FALSE, mode |-> 0, first |-> 0, cart |-> FALSE]

\* read_geometry(): the Geometry returned (atomic numbers, coordinates, cell),
\* the new self._scale, whether warn was called, and the numbers of the lines
\* read as the coordinate-mode line and as the first coordinate line
ReadGeometry(file, scale0) ==
    LET sc == ReadSupercell(file, scale0)
        line1 == ReadLine(file, 6).tokens
        opt7 == ReadLine(file, 7).tokens
        try == Int32Array(opt7)
        except == Int32Array(line1)
        count == IF try.status = "ok" THEN try.val ELSE except.val
        species == IF try.status = "ok" THEN LabelSpecies(line1)
                   ELSE [i \in 1..Len(count) |-> i]
        atom == AtomList(species, count, 1)
        mode == IF ReadLine(file, 8).first \in {"S", "s"} THEN 9 ELSE 8
        opt == ReadLine(file, mode)
        cart == opt.first \in {"C", "c", "K", "k"}
        rows == ReadRows(file, mode + 1, Len(atom))
    IN  IF sc.status # "ok" THEN CarError(sc.status, sc.scale)
        ELSE IF try.status # "ok" /\ except.status # "ok" THEN CarError("ValueError", sc.scale)
        ELSE IF \E i \in 1..Len(atom) : atom[i] = 0 THEN CarError("KeyError", sc.scale)
        ELSE IF ReadLine(file, 8).first = "" \/ opt.first = ""
        THEN CarError("IndexError", sc.scale)
        ELSE IF rows.status # "ok" THEN CarError(rows.status, sc.scale)
        ELSE [status |-> "ok", scale |-> sc.scale, atom |-> atom,
              xyz |-> [ia \in 1..Len(atom) |->
                         IF cart
                         THEN <<QMul(rows.val[ia][1], sc.scale), QMul(rows.val[ia][2], sc.scale),
                                QMul(rows.val[ia][3], sc.scale)>>
                         ELSE DotCellT(rows.val[ia], sc.cell)],
              cell |-> sc.cell, warned |-> try.status # "ok",
              mode |-> mode, first |-> mode + 1, cart |-> cart]

\* the cells, coordinates and geometries explored
CarCells ==
    { << <<Q(1, 1), Q(0, 1), Q(0, 1)>>, <<Q(0, 1), Q(1, 1), Q(0, 1)>>,
         <<Q(0, 1), Q(0, 1), Q(1, 1)>> >>,
      << <<Q(1, 1), Q(1, 2), Q(0, 1)>>, <<Q(0, 1), Q(1, 1), Q(0, 1)>>,
         <<Q(0, 1), Q(1, 3), Q(1, 1)>> >> }

Coord(ia, c) == <<Q(ia, 3), Q(c, 4), Q(0 - ia, 7)>>

\* the species index of each atom, species numbered as they first appear
SpecieLists ==
    UNION {{sp \in [1..na -> 0..1] :
                /\ sp[1] = 0
                /\ \A i \in 1..na : sp[i] = 1 => \E j \in 1..(i - 1) : sp[j] = 0} :
           na \in 1..MaxAtoms}

Geoms ==
    {[cell |-> cell, Z |-> Z, specie |-> sp,
      xyz |-> [ia \in 1..Len(sp) |-> Coord(ia, c)]] :
        cell \in CarCells, Z \in {<<1, 6>>, <<6, 1>>}, sp \in SpecieLists, c \in 0..1}

NoGeom == [cell |-> <<>>, Z |-> <<>>, specie |-> <<>>, xyz |-> <<>>]

\* the species counts of a file: one or two species, at most MaxAtoms atoms
CountLists ==
    {<<n>> : n \in 1..MaxAtoms}
    \cup {<<n[1], n[2]>> : n \in {x \in (1..MaxAtoms) \X (1..MaxAtoms) : x[1] + x[2] <= MaxAtoms}}

RECURSIVE Sum(_)
Sum(q) == IF q = <<>> THEN 0 ELSE Head(q) + Sum(Tail(q))

\* a POSCAR: comment, scale, three cell rows, the species labels (optional),
\* the counts, 'Selective dynamics' (optional), the coordinate-mode line and a
\* line per atom, which carries three flags under selective dynamics
Poscar(d) ==
    << Line("c", <<Word("comment")>>),
       Line(" ", <<FloatTok(d.scale)>>),
       Line(" ", [i \in 1..3 |-> FloatTok(d.cell[1][i])]),
       Line(" ", [i \in 1..3 |-> FloatTok(d.cell[2][i])]),
       Line(" ", [i \in 1..3 |-> FloatTok(d.cell[3][i])]) >>
    \o (IF d.labels
        THEN << Line(" ", [i \in 1..Len(d.count) |-> Word(ZLabel[<<6, 1>>[i]])]) >>
        ELSE <<>>)
    \o << Line(" ", [i \in 1..Len(d.count) |-> IntTok(d.count[i])]) >>
    \o (IF d.selective THEN << Line("S", <<Word("Selective"), Word("dynamics")>>) >> ELSE <<>>)
    \o << Line(d.mode, <<Word(d.mode)>>) >>
    \o [ia \in 1..Sum(d.count) |->
            Line(" ", [i \in 1..3 |-> FloatTok(Coord(ia, 1)[i])]
                      \o (IF d.selective THEN <<Word("T"), Word("T"), Word("F")>> ELSE <<>>))]

\* the first characters of the coordinate-mode lines explored
CarModes == {"D", "d", "C", "c", "K"}

PoscarDescs ==
    {[labels |-> l, selective |-> sel, mode |-> m, scale |-> sc, cell |-> cell, count |-> n] :
        l \in BOOLEAN, sel \in BOOLEAN, m \in CarModes, sc \in {Q(1, 1), Q(2, 1)},
        cell \in CarCells, n \in CountLists}

NoDesc == [labels |-> FALSE, selective |-> FALSE, mode |-> "", scale |-> Q(1, 1),
           cell |-> <<>>, count |-> <<>>]

NoCarCall == [op |-> "none", status |-> "", out |-> <<>>]

\* a carSileVASP on an existing file (_setup: self._scale = 1.)
CarInit ==
    /\ arg = Unused
    /\ bloch = Unused
    /\ pc = "idle"
    /\ used = FALSE
    /\ last = NoResult
    /\ call = NoCall
    /\ heap = Unused
    /\ work = Unused
    /\ sile = Unused
    /\ car \in {[file |-> Poscar(d), desc |-> d, geom |-> NoGeom, scale |-> Q(1, 1),
                 last |-> NoCarCall] : d \in PoscarDescs}

\* obj.write_geometry(geom): the file is written anew
DoWriteGeometry ==
    /\ \E geom \in Geoms :
         LET w == WriteGeometry(geom)
         IN  car' = [car EXCEPT !.file = w.file, !.desc = NoDesc, !.geom = geom,
                                !.last = [op |-> "write_geometry", status |-> w.status,
                                          out |-> <<>>]]
    /\ UNCHANGED <<heap, work, sile, arg, bloch, pc, used, last, call>>

\* obj.read_supercell()
DoReadSupercell ==
    /\ LET r == ReadSupercell(car.file, car.scale)
       IN  car' = [car EXCEPT !.scale = r.scale,
                              !.last = [op |-> "read_supercell", status |-> r.status,
                                        out |-> r]]
    /\ UNCHANGED <<heap, work, sile, arg, bloch, pc, used, last, call>>

\* obj.read_geometry()
DoReadGeometry ==
    /\ LET r == ReadGeometry(car.file, car.scale)
       IN  car' = [car EXCEPT !.scale = r.scale,
                              !.last = [op |-> "read_geometry", status |-> r.status,
                                        out |-> r]]
    /\ UNCHANGED <<heap, work, sile, arg, bloch, pc, used, last, call>>

CarNext ==
    \/ DoWriteGeometry
    \/ DoReadSupercell
    \/ DoReadGeometry

SpecCar == CarInit /\ [][CarNext]_vars

\* ------------------------------------------------------------ claims
\* the input of unfold is N square matrices of one shape and N k-points
WellFormed(B, in) ==
    /\ Len(in.M) = BlochLen(B)
    /\ Len(in.k_unfold) = BlochLen(B)
    /\ \A t \in 1..Len(in.M) :
         in.M[t].shape = in.M[1].shape /\ in.M[t].shape[1] = in.M[t].shape[2]

\* C1: unfold_points(k) returns N = Bi*Bj*Bk points, and the point at index
\* T = r*Bj*Bi + q*Bi + p is ((p + kx)/Bi, (q + ky)/Bj, (r + kz)/Bk); for
\* repetition (2,1,1) and k = 0 the result is [(0,0,0), (1/2,0,0)].
C1_UnfoldPointsOrder ==
    last.op = "unfold_points" =>
        LET k == last.in
            pts == last.out
        IN  /\ Len(pts) = bloch[1] * bloch[2] * bloch[3]
            /\ \A p \in 0..(bloch[1] - 1), q \in 0..(bloch[2] - 1), r \in 0..(bloch[3] - 1) :
                 LET pt == pts[r * bloch[2] * bloch[1] + q * bloch[1] + p + 1]
                 IN  /\ pt[1] * bloch[1] = p * PhaseDen + k[1]
                     /\ pt[2] * bloch[2] = q * PhaseDen + k[2]
                     /\ pt[3] * bloch[3] = r * PhaseDen + k[3]
            /\ (bloch = <<2, 1, 1>> /\ k = <<0, 0, 0>>) =>
                 pts = << <<0, 0, 0>>, <<PhaseDen \div 2, 0, 0>> >>

C1_Witness ==
    /\ last.op = "unfold_points"
    /\ \A i \in 1..3 : bloch[i] >= 2
    /\ last.in = <<6, 0, 6>>

\* the sum over T = 1..n of M[T][pos] * exp(2 pi i (kx_T dI + ky_T dJ + kz_T dK)),
\* d = (dI, dJ, dK), as the coefficients of 1, z, z^2, z^3
RECURSIVE PhaseSum(_, _, _, _, _)
PhaseSum(M, ku, n, pos, d) ==
    IF n = 0 THEN <<0, 0, 0, 0>>
    ELSE LET rest == PhaseSum(M, ku, n - 1, pos, d)
             e == Exp2jPi(ku[n][1] * d[1] + ku[n][2] * d[2] + ku[n][3] * d[3])
             v == M[n].data[pos]
         IN  <<rest[1] + v * e[1], rest[2] + v * e[2], rest[3] + v * e[3], rest[4] + v * e[4]>>

\* C2: for N matrices of shape (M,M) the block of the result at row-block
\* (k,j,i) and column-block (K,J,I) is
\* (1/N) * sum_T M[T] * exp(2 pi i (kx_T (I-i) + ky_T (J-j) + kz_T (K-k)));
\* for repetition (2,1,1), inputs [1, 1] and k_unfold [(0,0,0), (1/2,0,0)]
\* entry (row, col) is 1/2 * sum_T exp(2 pi i kx_T (row - col)).
C2_UnfoldFormula ==
    (last.op = "unfold" /\ WellFormed(bloch, last.in)) =>
        LET M == last.in.M
            ku == last.in.k_unfold
            N == bloch[1] * bloch[2] * bloch[3]
            m == M[1].shape[1]
            out == last.out
        IN  /\ out.status = "ok"
            /\ \A k \in 0..(bloch[3] - 1), j \in 0..(bloch[2] - 1), i \in 0..(bloch[1] - 1),
                  K \in 0..(bloch[3] - 1), J \in 0..(bloch[2] - 1), I \in 0..(bloch[1] - 1),
                  a \in 0..(m - 1), b \in 0..(m - 1) :
                 out.data[<< ((k * bloch[2] + j) * bloch[1] + i) * m + a,
                             ((K * bloch[2] + J) * bloch[1] + I) * m + b >>]
                   = CNorm(Cx(PhaseSum(M, ku, N, a * m + b + 1, <<I - i, J - j, K - k>>), N))
            /\ (/\ bloch = <<2, 1, 1>>
                /\ M = << [shape |-> <<1, 1>>, data |-> <<1>>],
                          [shape |-> <<1, 1>>, data |-> <<1>>] >>
                /\ ku = << <<0, 0, 0>>, <<PhaseDen \div 2, 0, 0>> >>) =>
                 \A row \in 0..1, col \in 0..1 :
                    out.data[<<row, col>>]
                      = CNorm(Cx(PhaseSum(M, ku, 2, 1, <<row - col, 0, 0>>), 2))

C2_Witness ==
    /\ last.op = "unfold"
    /\ WellFormed(bloch, last.in)
    /\ \A i \in 1..3 : bloch[i] >= 2
    /\ last.in.M[2].data = <<5, 6, 7, 8>>
    /\ last.in.k_unfold = Skew(BlochLen(bloch), 1)
    /\ last.out.status = "ok"

\* C3: unfold with a matrix list whose length differs from N raises an error
\* and returns no result.
C3_LengthMismatchRaises ==
    (last.op = "unfold" /\ Len(last.in.M) # BlochLen(bloch)) => last.out.status # "ok"

\* C4: unfold with a non-square first matrix, or with matrices of differing
\* shapes, raises an error before any accumulation and returns no result.
C4_ShapeMismatchRaises ==
    (/\ last.op = "unfold"
     /\ Len(last.in.M) = BlochLen(bloch)
     /\ \/ last.in.M[1].shape[1] # last.in.M[1].shape[2]
        \/ \E t \in 1..Len(last.in.M) : last.in.M[t].shape # last.in.M[1].shape)
    => (last.out.status # "ok" /\ last.out.done = 0)

\* C5: the result of unfold by the branch selected for the repetition vector
\* equals the result of the general triple-loop branch, whose loops over an
\* axis of repetition 1 run over the single index 0.
C5_BranchesAgree ==
    last.op = "unfold" =>
        last.out = UnfoldWith("IJK", bloch, last.in.M, last.in.k_unfold)

C5_Witness ==
    /\ last.op = "unfold"
    /\ Branch(bloch) = "IK"
    /\ WellFormed(bloch, last.in)
    /\ last.in.M[1].shape = <<2, 2>>
    /\ last.in.k_unfold = Skew(BlochLen(bloch), 1)
    /\ last.out.status = "ok"

\* C6: for repetition (1,1,1), unfold_points(k) is [k], and unfold([A], [k])
\* has the shape and the entries of the square matrix A.
C6_IdentityCase ==
    bloch = <<1, 1, 1>> =>
        /\ last.op = "unfold_points" => last.out = <<last.in>>
        /\ (last.op = "unfold" /\ WellFormed(bloch, last.in)) =>
              LET A == last.in.M[1]
              IN  /\ last.out.status = "ok"
                  /\ last.out.shape = A.shape
                  /\ \A a \in 0..(A.shape[1] - 1), b \in 0..(A.shape[2] - 1) :
                       last.out.data[<<a, b>>] = CReal(A.data[a * A.shape[2] + b + 1], 1)

C6_Witness ==
    /\ bloch = <<1, 1, 1>>
    /\ last.op = "unfold"
    /\ WellFormed(bloch, last.in)
    /\ last.in.M[1] = [shape |-> <<2, 2>>, data |-> <<1, 2, 3, 4>>]
    /\ last.in.k_unfold = Skew(1, 1)

\* C7: the constructor replaces every component < 1 by 1 and keeps every
\* component >= 1, and len() is the product of the clamped components.
C7_ConstructorClamps ==
    /\ \A i \in 1..3 : /\ arg[i] < 1 => bloch[i] = 1
                       /\ arg[i] >= 1 => bloch[i] = arg[i]
    /\ last.op = "len" =>
         last.out = (IF arg[1] < 1 THEN 1 ELSE arg[1]) * (IF arg[2] < 1 THEN 1 ELSE arg[2])
                      * (IF arg[3] < 1 THEN 1 ELSE arg[3])

C7_Witness ==
    /\ last.op = "len"
    /\ arg[1] < 0
    /\ arg[2] > 1
    /\ arg[3] = 0

\* C8: __call__ invokes func once per point of unfold_points(k), in the order
\* T = 0..N-1, with the point as k and the extra argument unchanged, calls
\* unfold only after all N invocations, and returns
\* unfold([func(k=K) for K in unfold_points(k)], unfold_points(k)).
C8_CallOrder ==
    LET pts == UnfoldPoints(bloch, call.k)
        res == [t \in 1..Len(pts) |-> FuncVal(call.func, call.extra, pts[t])]
    IN  /\ pc = "calling" =>
              /\ Len(call.calls) = Len(call.M)
              /\ Len(call.calls) <= BlochLen(bloch)
              /\ \A t \in 1..Len(call.calls) :
                    /\ call.calls[t] = <<call.extra, pts[t]>>
                    /\ call.M[t] = res[t]
        /\ (pc = "returned" /\ last.op = "call") =>
              /\ Len(call.calls) = BlochLen(bloch)
              /\ \A t \in 1..Len(call.calls) : call.calls[t] = <<call.extra, pts[t]>>
              /\ last.in = [func |-> call.func, extra |-> call.extra, k |-> call.k]
              /\ last.out = Unfold(bloch, res, pts)

C8_Witness ==
    /\ pc = "returned"
    /\ last.op = "call"
    /\ BlochLen(bloch) >= 4
    /\ call.func = "kdep"
    /\ call.extra = 1
    /\ call.k = <<6, 0, 6>>

\* C9: unfold of N matrices of shape (M,M) returns a matrix of shape
\* (N*M, N*M).
C9_ResultShape ==
    (last.op = "unfold" /\ WellFormed(bloch, last.in)) =>
        LET n == BlochLen(bloch) * last.in.M[1].shape[1]
        IN  /\ last.out.status = "ok"
            /\ last.out.shape = <<n, n>>
            /\ DOMAIN last.out.data = (0..(n - 1)) \X (0..(n - 1))

C9_Witness ==
    /\ last.op = "unfold"
    /\ WellFormed(bloch, last.in)
    /\ BlochLen(bloch) >= 4
    /\ last.in.M[1].shape = <<2, 2>>
    /\ last.out.status = "ok"

\* C10: no operation changes the stored repetition vector, every component
\* of it is >= 1, and so N >= 1 and the weight 1/N is defined.
C10_BlochImmutable ==
    /\ [](/\ \A i \in 1..3 : bloch[i] >= 1
          /\ BlochLen(bloch) >= 1)
    /\ [][bloch' = bloch]_vars

C10_Witness ==
    /\ used
    /\ pc = "returned"
    /\ last.op \in {"unfold", "call"}

\* C16: if all N sample matrices equal one matrix A and k_unfold is
\* unfold_points((0,0,0)) of the same object, unfold returns the block-diagonal
\* matrix with A in each diagonal M-by-M block and zero in every other block
\* (the N*M identity for A the identity).
C16_EqualSamplesBlockDiagonal ==
    (/\ last.op = "unfold"
     /\ WellFormed(bloch, last.in)
     /\ \A t \in 1..Len(last.in.M) : last.in.M[t] = last.in.M[1]
     /\ last.in.k_unfold = UnfoldPoints(bloch, <<0, 0, 0>>)) =>
        LET A == last.in.M[1]
            m == A.shape[1]
            n == bloch[1] * bloch[2] * bloch[3] * m
        IN  /\ last.out.status = "ok"
            /\ \A row \in 0..(n - 1), col \in 0..(n - 1) :
                 last.out.data[<<row, col>>]
                   = IF row \div m = col \div m
                     THEN CReal(A.data[(row % m) * m + (col % m) + 1], 1)
                     ELSE CZero
            /\ (\A a \in 0..(m - 1), b \in 0..(m - 1) :
                   A.data[a * m + b + 1] = IF a = b THEN 1 ELSE 0) =>
                 \A row \in 0..(n - 1), col \in 0..(n - 1) :
                    last.out.data[<<row, col>>] = CReal(IF row = col THEN 1 ELSE 0, 1)

C16_Witness ==
    /\ last.op = "unfold"
    /\ \A i \in 1..3 : bloch[i] >= 2
    /\ last.in.M[1] = [shape |-> <<2, 2>>, data |-> <<1, 2, 3, 4>>]
    /\ last.in.M[Len(last.in.M)] = last.in.M[1]
    /\ last.in.k_unfold = UnfoldPoints(bloch, <<0, 0, 0>>)
    /\ last.out.status = "ok"

\* C11: unfold_points and unfold leave their arguments (k, the list M and each
\* matrix of it, k_unfold) and the Bloch object unchanged, hand back a newly
\* allocated array at each call, and keep no state: two calls with equal
\* arguments return equal results whatever was called in between.
C11_NoSideEffects ==
    heap # Unused =>
        /\ heap.written = {}
        /\ heap.k = heap.given.k
        /\ heap.M = heap.given.M
        /\ heap.k_unfold = heap.given.k_unfold
        /\ bloch = Clamp(arg)
        /\ \A i \in 1..Len(heap.rets) :
             heap.rets[i].op \in {"unfold_points", "unfold"} =>
                /\ heap.rets[i].buf[1] = "new"
                /\ \A j \in 1..Len(heap.rets) :
                     /\ (j # i) => heap.rets[j].buf # heap.rets[i].buf
                     /\ (heap.rets[j].op = heap.rets[i].op) =>
                            heap.rets[j].val = heap.rets[i].val

C11_Witness ==
    /\ heap # Unused
    /\ Len(heap.rets) = 3
    /\ heap.rets[1].op = "unfold"
    /\ heap.rets[2].op = "unfold_points"
    /\ heap.rets[3].op = "unfold"
    /\ heap.rets[3].val.status = "ok"
    /\ BlochLen(bloch) >= 2
    /\ Len(heap.M[1].data) >= 4

\* C12: with the iterations (T, k, j, i) of the accumulation split among
\* concurrent workers by destination block, a step changes no block but the
\* destination Mu[k, j, i] of the iteration it belongs to, no block is written
\* by two workers, and whatever the interleaving the finished array is the one
\* the sequential loop returns.
C12_BlocksIndependent ==
    /\ [](work # Unused =>
            /\ \A blk \in BlockIndex(bloch) : Cardinality(work.writers[blk]) <= 1
            /\ (\A w \in 1..work.W : WorkerDone(w)) =>
                  Reshape2D(work.Mu, bloch, work.M[1].shape[1], work.M[1].shape[2])
                    = Unfold(bloch, work.M, work.k_unfold))
    /\ [][work # Unused =>
            \A blk \in BlockIndex(bloch) :
                work'.Mu[blk] # work.Mu[blk] =>
                    \E w \in 1..work.W :
                        /\ work'.pos[w] = work.pos[w] + 1
                        /\ IterationsOf(w, work.W, Branch(bloch), bloch)[work.pos[w]].blk = blk]_vars

C12_Witness ==
    /\ work # Unused
    /\ work.W = 2
    /\ BlochLen(bloch) = 4
    /\ \A w \in 1..work.W : WorkerDone(w) /\ work.pos[w] > 4
    /\ work.M[1].shape = <<2, 2>>

\* C13: for a TBtransSile with _access > 0, _setup completes without error,
\* leaves the cache holding 'cell', 'xa', 'lasto', 'a_dev', 'pivot', 'kpt',
\* 'wkpt', 'E' (as read from the file) and '_geom', with _access restored;
\* afterwards read_geom returns the cached '_geom' and _data(name) the cached
\* entry of each name.
C13_SetupFillsCache ==
    (sile # Unused /\ sile.last.op = "_setup" /\ sile.last.access > 0) =>
        /\ sile.last.status = "ok"
        /\ sile.access = sile.last.access
        /\ sile.hasdata
        /\ DOMAIN sile.data = SileNameSet \cup {"_geom"}
        /\ \A n \in SileNameSet : sile.data[n] = sile.file[n]
        /\ ReadGeom(sile) = Ok(sile.data["_geom"])
        /\ \A n \in SileNameSet : DataOf(sile, n, 0) = Ok(sile.data[n])

\* the line holding the coordinate mode in a file of description d
ModeLine(d) == 6 + (IF d.labels THEN 1 ELSE 0) + (IF d.selective THEN 1 ELSE 0) + 1

\* C14: for a file without the species-label line, read_geometry takes the
\* counts from the line after the cell, gives the species the atomic numbers
\* 1, 2, ..., warns, reads the coordinate mode from the line that holds it and
\* the sum(counts) coordinates from the lines after it, starting with the
\* first atom's line.
C14_NoLabelsSameLines ==
    (car # Unused /\ car.last.op = "read_geometry" /\ car.desc # NoDesc
        /\ ~car.desc.labels /\ ~car.desc.selective) =>
        /\ car.last.status = "ok"
        /\ car.last.out.warned
        /\ car.last.out.atom = AtomList([i \in 1..Len(car.desc.count) |-> i], car.desc.count, 1)
        /\ car.last.out.mode = ModeLine(car.desc)
        /\ car.last.out.first = ModeLine(car.desc) + 1
        /\ car.last.out.cart = (car.desc.mode \in {"C", "c", "K", "k"})

\* f0*a0 + f1*a1 + f2*a2 for the rows a0, a1, a2 of cell
RowCombination(f, cell) ==
    [j \in 1..3 |-> QAdd(QAdd(QMul(f[1], cell[1][j]), QMul(f[2], cell[2][j])),
                         QMul(f[3], cell[3][j]))]

\* C15: for a file in Direct mode (mode line not starting with C, c, K, k)
\* read_geometry returns for the atom with listed coordinates (f0, f1, f2) the
\* position f0*a0 + f1*a1 + f2*a2, a0, a1, a2 the rows of the cell scaled by
\* the scale factor; in Cartesian mode it returns the listed coordinates
\* times the scale factor.
C15_DirectAndCartesian ==
    (car # Unused /\ car.last.op = "read_geometry" /\ car.desc # NoDesc
        /\ car.desc.labels /\ ~car.desc.selective) =>
        LET d == car.desc
            cell == [i \in 1..3 |-> [j \in 1..3 |-> QMul(d.cell[i][j], d.scale)]]
        IN  /\ car.last.status = "ok"
            /\ car.last.out.cell = cell
            /\ Len(car.last.out.xyz) = Sum(d.count)
            /\ \A ia \in 1..Sum(d.count) :
                 car.last.out.xyz[ia] =
                    IF d.mode \in {"C", "c", "K", "k"}
                    THEN [j \in 1..3 |-> QMul(Coord(ia, 1)[j], d.scale)]
                    ELSE RowCombination(Coord(ia, 1), cell)

\* C17: write_geometry followed by read_geometry returns as many atoms as
\* were written, atom ia with the species and (to the 9 written decimals) the
\* coordinates of atom ia of the geometry written, whatever the order of the
\* species among the atoms; the counts of the header sum to the number of atoms.
C17_WriteReadRoundTrip ==
    (car # Unused /\ car.last.op = "read_geometry" /\ car.geom # NoGeom) =>
        LET g == car.geom
            na == Len(g.specie)
        IN  /\ car.last.status = "ok"
            /\ Len(car.last.out.atom) = na
            /\ Sum([i \in 1..Len(car.file[7].tokens) |-> car.file[7].tokens[i].v.n]) = na
            /\ \A ia \in 1..na :
                 /\ car.last.out.atom[ia] = g.Z[g.specie[ia] + 1]
                 /\ \A j \in 1..3 : Scaled9(car.last.out.xyz[ia][j]) = Scaled9(g.xyz[ia][j])
====
